---------------------------- MODULE Spec2Model ----------------------------
(***************************************************************************)
(* Fornjot: the model host (crates/fj-host/src/lib.rs) and the kernel's    *)
(* transform algorithm (crates/fj-kernel/src/algorithms/transform.rs).     *)
(*                                                                         *)
(* Part 1 models Model::load_and_watch, the file-watch callback, the       *)
(* initial-load trigger thread and Watcher::receive as a state machine     *)
(* around the zero-capacity channel created by mpsc::sync_channel(0).      *)
(* Part 2 models TransformObject over exact integer geometry.              *)
(***************************************************************************)
EXTENDS Integers, Sequences, FiniteSets, TLC

(***************************************************************************)
(* Bounds of the model.                                                    *)
(***************************************************************************)
\* Number of file-system events the notify backend delivers in one run.
MaxEvents == 3
\* Number of transform operations applied to one object in a row.
MaxSteps == 2

VARIABLES
    law,        \* position of Model::load_and_watch
    watching,   \* watcher.watch(..) has registered the source directory
    trig,       \* the thread spawned at lib.rs:198, holding tx2
    cb,         \* the notify thread running the callback, holding tx
    cons,       \* the thread calling Watcher::receive
    rxAlive,    \* the Watcher (and with it the Receiver) has not been dropped
    events,     \* file-system events delivered to the callback so far
    lastEv,     \* the event of the latest callback invocation
    lastCb,     \* what the latest callback invocation did
    signals,    \* calls of tx.send / tx2.send so far
    dequeued,   \* notifications try_recv has handed to receive
    sendFailed, \* sends that returned Err (receiver gone) and panicked
    builds,     \* calls of Model::load_once so far
    tryRes,     \* outcome of try_recv in the current / latest receive call
    buildRes,   \* outcome of load_once in the current / latest receive call
    callBuilds, \* calls of load_once made by the current / latest receive call
    result,     \* what the latest receive call returned
    compileErrs,\* receive calls that ended in Error::Compile
    obj,        \* the kernel object being transformed
    orig,       \* the object as it was constructed
    acc,        \* the composition of the transforms applied to orig so far
    steps,      \* number of operations applied to orig so far
    lastOp,     \* the latest operation: its name, argument, transform and input
    swShape,    \* the fj::Sweep: its 2D shape, path and color
    swArgs,     \* config and tolerance of the latest compute_brep call
    swPc,       \* "idle", or "returned" once compute_brep has returned
    swLog,      \* the calls compute_brep made, in order, with their arguments
    swSketch,   \* what the 2D shape's compute_brep returned
    swSolid,    \* what sweep returned
    swResult,   \* what compute_brep returned
    swBv,       \* what bounding_volume returned
    tri,        \* a Triangle
    arr,        \* the Array it was converted to
    back,       \* the Triangle converted back from the Array
    triPc,      \* how far the conversion has got, and by which impl
    edgesHist,  \* the values an Edges has had, the first as constructed
    edgesLog    \* the operations applied to it

hostVars == <<law, watching, trig, cb, cons, rxAlive, events, lastEv, lastCb,
              signals, dequeued, sendFailed, builds, tryRes, buildRes,
              callBuilds, result, compileErrs>>

kernelVars == <<obj, orig, acc, steps, lastOp>>

sweepVars == <<swShape, swArgs, swPc, swLog, swSketch, swSolid, swResult, swBv>>

triangleVars == <<tri, arr, back, triPc>>

edgesVars == <<edgesHist, edgesLog>>

\* What the host and the transform algorithm never touch.
restVars == <<sweepVars, triangleVars, edgesVars>>

vars == <<hostVars, kernelVars, restVars>>

(***************************************************************************)
(* notify events.  A path is its file name split at the dots:              *)
(* <<"main", "rs">> is main.rs, <<"", "swp">> is .swp, <<"main">> is main. *)
(***************************************************************************)
None == "None"

\* notify::EventKind with ModifyKind and DataChange spelled out.
EventKinds ==
    { "Any", "Access", "Create", "Remove", "Other",
      "Modify(Any)", "Modify(Data(Any))", "Modify(Data(Size))",
      "Modify(Data(Content))", "Modify(Data(Other))",
      "Modify(Metadata)", "Modify(Name)", "Modify(Other)" }

\* The three patterns of the `if let` at lib.rs:148-160.
AcceptedKinds ==
    { "Modify(Any)", "Modify(Data(Any))", "Modify(Data(Content))" }

\* A black list that misses one of the editor extensions.
MutBlackListWithoutSwx == { "swp", "tmp" }

\* HashSet::from([OsStr::new("swp"), OsStr::new("tmp"), OsStr::new("swx")])
black_list == { "swp", "tmp", "swx" }

\* std::path::Path::extension: None without an embedded dot, None for a file
\* name that begins with a dot and has no other dot, else the part after the
\* last dot.
Extension(path) ==
    IF Len(path) <= 1 THEN None
    ELSE IF Len(path) = 2 /\ path[1] = "" THEN None
    ELSE path[Len(path)]

PathLists ==
    { <<>>,
      << <<"main", "rs">> >>,
      << <<"main">> >>,
      << <<"", "swp">> >>,
      << <<"main", "rs", "swp">> >>,
      << <<"x", "tmp">> >>,
      << <<"x", "swx">> >>,
      << <<"main", "rs">>, <<"x", "swp">> >>,
      << <<"x", "swp">>, <<"main", "rs">> >> }

\* notify::Result<notify::Event>: Err(_), or Ok(event) with a kind and paths.
ErrEvent == [ok |-> FALSE, kind |-> "Any", paths |-> <<>>]

WatchEvents ==
    {ErrEvent} \cup [ok : {TRUE}, kind : EventKinds, paths : PathLists]

NoEvent == [ok |-> TRUE, kind |-> "Other", paths |-> <<>>]

\* The closure passed to notify::recommended_watcher, up to the send:
\* what it does with one event.
WatchCallback(event) ==
    IF ~event.ok THEN "panic"                        \* event.expect(..)
    ELSE IF event.kind \notin AcceptedKinds THEN "skip"
    ELSE IF Len(event.paths) = 0 THEN "panic"        \* paths.get(0).expect(..)
    ELSE IF /\ Extension(event.paths[1]) # None
            /\ Extension(event.paths[1]) \in black_list THEN "return"
    ELSE "send"

(***************************************************************************)
(* The channel of mpsc::sync_channel(0): no buffer.  send blocks until a   *)
(* receiver takes the value, or returns Err when the Receiver is gone.     *)
(***************************************************************************)
\* A send that gives up instead of waiting for the receiver (try_send).
MutSendWithoutWaiting(receiverAlive) ==
    IF receiverAlive THEN "idle" ELSE "panicked"

\* Position of a sender right after it called send(()).
SyncSend(receiverAlive) ==
    IF receiverAlive THEN "sending" ELSE "panicked"  \* .expect("Channel is disconnected")

\* The senders blocked in send: the notifications a try_recv can take.
Pending ==
    (IF trig = "sending" THEN {"trig"} ELSE {}) \cup
    (IF cb = "sending" THEN {"cb"} ELSE {})

\* tx lives in the callback (dropped when the notify thread unwinds), tx2 in
\* the trigger thread (dropped when it returns or unwinds).
SendersAlive ==
    (IF cb # "panicked" THEN {"tx"} ELSE {}) \cup
    (IF trig \in {"spawned", "sending"} THEN {"tx2"} ELSE {})

\* Receiver::try_recv on the zero-capacity channel.
TryRecv ==
    IF Pending # {} THEN "Ok"
    ELSE IF SendersAlive = {} THEN "Disconnected"
    ELSE "Empty"

(***************************************************************************)
(* Model::load_once and the match in Watcher::receive.                     *)
(***************************************************************************)
CargoOutcomes == { "spawn_failed", "exit_failure", "exit_success" }
LibOutcomes == { "loaded", "open_failed", "symbol_missing" }

\* Model::load_once: cargo build, then load the library and call `model`.
load_once(cargo, lib) ==
    IF cargo = "spawn_failed" THEN "Io"              \* .status()?
    ELSE IF cargo = "exit_failure" THEN "Compile"
    ELSE IF lib = "loaded" THEN "Ok"
    ELSE "LibLoading"                                \* Library::new(..)? / lib.get(..)?

\* A receive that builds although the channel was empty.
MutBuildOnEmpty(tr) ==
    CASE tr = "Ok" -> "building"
      [] tr = "Empty" -> "building"
      [] OTHER -> "panicked"

\* A receive that builds whatever try_recv returned.
MutBuildAlways(tr) == "building"

\* Position of receive after try_recv returned tr.
AfterTryRecv(tr) ==
    CASE tr = "Ok" -> "building"
      [] tr = "Empty" -> "idle"
      [] OTHER -> "panicked"                         \* Disconnected: panic!()

\* A match without the Err(Error::Compile) arm.
MutCompileIsFatal(r) ==
    CASE r = "Ok" -> "Some"
      [] OTHER -> "panic"

\* The match on load_once's result at lib.rs:269-283: what receive returns.
ReceiveMatch(r) ==
    CASE r = "Ok" -> "Some"
      [] r = "Compile" -> "None"
      [] OTHER -> "panic"

(***************************************************************************)
(* Part 2: the kernel.  fj_math over exact integers: points and vectors    *)
(* are tuples, a Transform is a linear part m (rows) and an offset t.      *)
(***************************************************************************)
Add(p, q) == [i \in DOMAIN p |-> p[i] + q[i]]

Scale(v, k) == [i \in DOMAIN v |-> v[i] * k]

MulMV(m, v) ==
    [i \in 1..3 |-> m[i][1] * v[1] + m[i][2] * v[2] + m[i][3] * v[3]]

MulMM(a, b) ==
    [i \in 1..3 |->
        [j \in 1..3 |-> a[i][1] * b[1][j] + a[i][2] * b[2][j] + a[i][3] * b[3][j]]]

IdentityMatrix == << <<1, 0, 0>>, <<0, 1, 0>>, <<0, 0, 1>> >>

Identity == [m |-> IdentityMatrix, t |-> <<0, 0, 0>>]

\* Transform::transform_point
transform_point(T, p) == Add(MulMV(T.m, p), T.t)

\* Transform::transform_vector: the linear part alone
transform_vector(T, v) == MulMV(T.m, v)

\* Transform::transform_line
transform_line(T, line) ==
    [kind |-> "Line",
     origin |-> transform_point(T, line.origin),
     direction |-> transform_vector(T, line.direction)]

\* Transform::transform_circle
transform_circle(T, circle) ==
    [kind |-> "Circle",
     center |-> transform_point(T, circle.center),
     a |-> transform_vector(T, circle.a),
     b |-> transform_vector(T, circle.b)]

\* Transform::transform_triangle
transform_triangle(T, triangle) ==
    [i \in 1..3 |-> transform_point(T, triangle[i])]

\* Transform::translation(offset)
translation(offset) == [m |-> IdentityMatrix, t |-> offset]

\* A quarter turn about a coordinate axis (right-handed).
QuarterTurn(axis) ==
    CASE axis = "x" -> << <<1, 0, 0>>, <<0, 0, -1>>, <<0, 1, 0>> >>
      [] axis = "y" -> << <<0, 0, 1>>, <<0, 1, 0>>, <<-1, 0, 0>> >>
      [] axis = "z" -> << <<0, -1, 0>>, <<1, 0, 0>>, <<0, 0, 1>> >>

\* Transform::rotation(axis_angle), for an axis-angle vector along a
\* coordinate axis whose length is `quarters` quarter turns.
rotation(axis_angle) ==
    LET q == QuarterTurn(axis_angle.axis)
        m == CASE axis_angle.quarters = 0 -> IdentityMatrix
               [] axis_angle.quarters = 1 -> q
               [] axis_angle.quarters = 2 -> MulMM(q, q)
               [] axis_angle.quarters = 3 -> MulMM(q, MulMM(q, q))
    IN  [m |-> m, t |-> <<0, 0, 0>>]

\* second after first, as one transform
Compose(second, first) ==
    [m |-> MulMM(second.m, first.m),
     t |-> Add(MulMV(second.m, first.t), second.t)]

\* cos and sin of k quarter turns
CosQ(k) == CASE k % 4 = 0 -> 1 [] k % 4 = 2 -> -1 [] OTHER -> 0
SinQ(k) == CASE k % 4 = 1 -> 1 [] k % 4 = 3 -> -1 [] OTHER -> 0

\* Curve::point_from_curve_coords.  The coordinate on a line is the multiple
\* of its direction, on a circle the angle, counted here in quarter turns.
point_from_curve_coords(curve, point) ==
    IF curve.kind = "Line"
       THEN Add(curve.origin, Scale(curve.direction, point[1]))
       ELSE Add(curve.center,
                Add(Scale(curve.a, CosQ(point[1])), Scale(curve.b, SinQ(point[1]))))

\* SweptCurve::point_from_surface_coords and vector_from_surface_coords, for
\* a swept line: u along the line, v along the path.
point_from_surface_coords(surface, p) ==
    Add(point_from_curve_coords(surface.curve, <<p[1]>>), Scale(surface.path, p[2]))

vector_from_surface_coords(surface, v) ==
    Add(Scale(surface.curve.direction, v[1]), Scale(surface.path, v[2]))

\* The curve in 3D that a curve given in surface coordinates stands for.
CurveOnSurface(surface, curve) ==
    IF curve.kind = "Line"
       THEN [kind |-> "Line",
             origin |-> point_from_surface_coords(surface, curve.origin),
             direction |-> vector_from_surface_coords(surface, curve.direction)]
       ELSE [kind |-> "Circle",
             center |-> point_from_surface_coords(surface, curve.center),
             a |-> vector_from_surface_coords(surface, curve.a),
             b |-> vector_from_surface_coords(surface, curve.b)]

(***************************************************************************)
(* TransformObject and its implementations (algorithms/transform.rs).      *)
(***************************************************************************)
\* impl TransformObject for Curve<3>
transform_curve(curve, T) ==
    IF curve.kind = "Circle"
       THEN transform_circle(T, curve)
       ELSE transform_line(T, curve)

\* impl TransformObject for GlobalVertex
transform_global_vertex(gv, T) ==
    [kind |-> "GlobalVertex", position |-> transform_point(T, gv.position)]

\* A vertex whose global form is left where it was.
MutVertexKeepsGlobal(vertex, T) == vertex

\* impl TransformObject for Vertex:
\* Self::new(self.position(), self.global().transform(transform))
transform_vertex(vertex, T) ==
    [kind |-> "Vertex",
     position |-> vertex.position,
     global |-> transform_global_vertex(vertex.global, T)]

\* impl TransformObject for Edge
transform_edge(edge, T) ==
    [kind |-> "Edge",
     curve |-> [local |-> edge.curve.local,
                global |-> transform_curve(edge.curve.global, T)],
     vertices |-> [i \in DOMAIN edge.vertices |->
                      transform_vertex(edge.vertices[i], T)]]

\* A cycle whose edges come out in reverse order.
MutCycleReversed(cycle, T) ==
    [kind |-> "Cycle",
     edges |-> [i \in DOMAIN cycle.edges |->
                   transform_edge(cycle.edges[Len(cycle.edges) + 1 - i], T)]]

\* impl TransformObject for Cycle
transform_cycle(cycle, T) ==
    [kind |-> "Cycle",
     edges |-> [i \in DOMAIN cycle.edges |-> transform_edge(cycle.edges[i], T)]]

\* fn transform_cycles
transform_cycles(cycles, T) ==
    [i \in DOMAIN cycles |-> transform_cycle(cycles[i], T)]

\* impl TransformObject for Surface, with SweptCurve::transform
transform_surface(surface, T) ==
    [kind |-> "SweptCurve",
     curve |-> transform_curve(surface.curve, T),
     path |-> transform_vector(T, surface.path)]

\* A face whose cycle lists are swapped.
MutFaceSwapsCycles(face, T) ==
    IF face.kind = "Face"
       THEN [kind |-> "Face",
             surface |-> transform_surface(face.surface, T),
             exteriors |-> transform_cycles(face.interiors, T),
             interiors |-> transform_cycles(face.exteriors, T),
             color |-> face.color]
       ELSE [kind |-> "Triangles",
             triangles |-> [i \in DOMAIN face.triangles |->
                 [triangle |-> transform_triangle(T, face.triangles[i].triangle),
                  color |-> face.triangles[i].color]]]

\* impl TransformObject for Face
transform_face(face, T) ==
    IF face.kind = "Face"
       THEN [kind |-> "Face",
             surface |-> transform_surface(face.surface, T),
             exteriors |-> transform_cycles(face.exteriors, T),
             interiors |-> transform_cycles(face.interiors, T),
             color |-> face.color]
       ELSE [kind |-> "Triangles",
             triangles |-> [i \in DOMAIN face.triangles |->
                 [triangle |-> transform_triangle(T, face.triangles[i].triangle),
                  color |-> face.triangles[i].color]]]

\* impl TransformObject for Sketch
transform_sketch(sketch, T) ==
    [kind |-> "Sketch", faces |-> {transform_face(f, T) : f \in sketch.faces}]

\* impl TransformObject for Solid
transform_solid(solid, T) ==
    [kind |-> "Solid", faces |-> {transform_face(f, T) : f \in solid.faces}]

\* TransformObject::transform, by the type of the object
transform(object, T) ==
    CASE object.kind \in {"Line", "Circle"} -> transform_curve(object, T)
      [] object.kind = "SweptCurve" -> transform_surface(object, T)
      [] object.kind = "GlobalVertex" -> transform_global_vertex(object, T)
      [] object.kind = "Vertex" -> transform_vertex(object, T)
      [] object.kind = "Edge" -> transform_edge(object, T)
      [] object.kind = "Cycle" -> transform_cycle(object, T)
      [] object.kind \in {"Face", "Triangles"} -> transform_face(object, T)
      [] object.kind = "Sketch" -> transform_sketch(object, T)
      [] object.kind = "Solid" -> transform_solid(object, T)

\* A translate that moves the object the other way.
MutTranslateBackwards(object, offset) ==
    transform(object, translation(Scale(offset, -1)))

\* TransformObject::translate, the trait's default; no impl overrides it.
translate(object, offset) == transform(object, translation(offset))

\* TransformObject::rotate, the trait's default; no impl overrides it.
rotate(object, axis_angle) == transform(object, rotation(axis_angle))

(***************************************************************************)
(* The objects and transforms the kernel is run on.                        *)
(***************************************************************************)
\* The plane z = height: the line along x through (0, 0, height), swept along y.
PlaneAt(height) ==
    [kind |-> "SweptCurve",
     curve |-> [kind |-> "Line", origin |-> <<0, 0, height>>, direction |-> <<1, 0, 0>>],
     path |-> <<0, 1, 0>>]

\* A vertex at a curve coordinate of a curve in 3D.
VertexOn(curve, point) ==
    [kind |-> "Vertex",
     position |-> point,
     global |-> [kind |-> "GlobalVertex",
                 position |-> point_from_curve_coords(curve, point)]]

\* The line segment from a to b (surface coordinates): its vertices are at
\* the curve coordinates 0 and 1.
LineSegment(surface, a, b) ==
    LET local == [kind |-> "Line", origin |-> a, direction |-> Add(b, Scale(a, -1))]
        global == CurveOnSurface(surface, local)
    IN  [kind |-> "Edge",
         curve |-> [local |-> local, global |-> global],
         vertices |-> <<VertexOn(global, <<0>>), VertexOn(global, <<1>>)>>]

\* The full circle around center (surface coordinates): no bounding vertices.
FullCircle(surface, center, radius) ==
    LET local == [kind |-> "Circle", center |-> center,
                  a |-> <<radius, 0>>, b |-> <<0, radius>>]
    IN  [kind |-> "Edge",
         curve |-> [local |-> local, global |-> CurveOnSurface(surface, local)],
         vertices |-> <<>>]

\* The arc of that circle from angle 0 to a quarter turn.
QuarterArc(surface, center, radius) ==
    LET circle == FullCircle(surface, center, radius)
    IN  [circle EXCEPT !.vertices =
            <<VertexOn(circle.curve.global, <<0>>), VertexOn(circle.curve.global, <<1>>)>>]

\* The closed polygon through the points (surface coordinates).
Polygon(surface, points) ==
    [kind |-> "Cycle",
     edges |-> [i \in DOMAIN points |->
                   LineSegment(surface, points[i], points[(i % Len(points)) + 1])]]

CircleCycle(surface, center, radius) ==
    [kind |-> "Cycle", edges |-> <<FullCircle(surface, center, radius)>>]

\* A square face with a round and a triangular hole.
FaceAt(height, color) ==
    [kind |-> "Face",
     surface |-> PlaneAt(height),
     exteriors |-> <<Polygon(PlaneAt(height), <<<<0, 0>>, <<6, 0>>, <<6, 6>>, <<0, 6>>>>)>>,
     interiors |-> <<CircleCycle(PlaneAt(height), <<2, 2>>, 1),
                     Polygon(PlaneAt(height), <<<<4, 4>>, <<5, 4>>, <<4, 5>>>>)>>,
     color |-> color]

TriangleFace ==
    [kind |-> "Triangles",
     triangles |->
        << [triangle |-> <<<<0, 0, 0>>, <<1, 0, 0>>, <<0, 1, 0>>>>, color |-> "red"],
           [triangle |-> <<<<0, 0, 1>>, <<0, 2, 1>>, <<3, 0, 1>>>>, color |-> "green"],
           [triangle |-> <<<<0, 0, 0>>, <<1, 0, 0>>, <<0, 1, 0>>>>, color |-> "blue"] >>]

SampleObjects ==
    { [kind |-> "GlobalVertex", position |-> <<1, 2, 3>>],
      VertexOn(PlaneAt(0).curve, <<2>>),
      PlaneAt(1).curve,
      FullCircle(PlaneAt(2), <<1, 1>>, 2).curve.global,
      PlaneAt(3),
      LineSegment(PlaneAt(0), <<1, 0>>, <<3, 2>>),
      FullCircle(PlaneAt(1), <<0, 0>>, 1),
      QuarterArc(PlaneAt(0), <<1, 2>>, 2),
      Polygon(PlaneAt(2), <<<<0, 0>>, <<2, 0>>, <<0, 3>>>>),
      FaceAt(0, "red"),
      TriangleFace,
      [kind |-> "Sketch", faces |-> {FaceAt(0, "red"), TriangleFace}],
      [kind |-> "Solid", faces |-> {FaceAt(0, "red"), FaceAt(3, "blue")}] }

\* General affine transforms: a quarter turn with an offset, a half turn
\* with an offset, a scaling with an offset.
SampleTransforms ==
    { [m |-> QuarterTurn("z"), t |-> <<1, 0, 2>>],
      [m |-> MulMM(QuarterTurn("x"), QuarterTurn("x")), t |-> <<0, -1, 0>>],
      [m |-> << <<2, 0, 0>>, <<0, 2, 0>>, <<0, 0, 2>> >>, t |-> <<1, 1, 1>>] }

SampleOffsets == { <<1, 0, 0>>, <<0, 2, -1>> }

SampleAxisAngles ==
    { [axis |-> "z", quarters |-> 1], [axis |-> "x", quarters |-> 3] }

(***************************************************************************)
(* Initial state: a Model exists, load_and_watch has not been called.      *)
(***************************************************************************)
HostInit ==
    /\ law = "start"
    /\ watching = FALSE
    /\ trig = "none"
    /\ cb = "idle"
    /\ cons = "idle"
    /\ rxAlive = TRUE
    /\ events = 0
    /\ lastEv = NoEvent
    /\ lastCb = "none"
    /\ signals = 0
    /\ dequeued = 0
    /\ sendFailed = 0
    /\ builds = 0
    /\ tryRes = "none"
    /\ buildRes = "none"
    /\ callBuilds = 0
    /\ result = "none"
    /\ compileErrs = 0

\* While the host runs, the kernel holds one object and is not called.
KernelIdle ==
    /\ obj = [kind |-> "GlobalVertex", position |-> <<0, 0, 0>>]
    /\ orig = obj
    /\ acc = Identity
    /\ steps = 0
    /\ lastOp = [op |-> "none", arg |-> <<>>, T |-> Identity, pre |-> obj]

\* No fj::Sweep is being computed.
SweepIdle ==
    /\ swShape = "none"
    /\ swArgs = "none"
    /\ swPc = "idle"
    /\ swLog = <<>>
    /\ swSketch = "none"
    /\ swSolid = "none"
    /\ swResult = "none"
    /\ swBv = [done |-> FALSE]

\* No Triangle is being converted.
TriangleIdle ==
    /\ tri = "none"
    /\ arr = "none"
    /\ back = "none"
    /\ triPc = "idle"

\* No Edges exists.
EdgesIdle ==
    /\ edgesHist = <<>>
    /\ edgesLog = <<>>

Init == HostInit /\ KernelIdle /\ SweepIdle /\ TriangleIdle /\ EdgesIdle

(***************************************************************************)
(* Model::load_and_watch                                                   *)
(***************************************************************************)
\* sync_channel(0) and notify::recommended_watcher(..)?
LawCreateWatcher ==
    /\ law = "start"
    /\ \E ok \in BOOLEAN :
          /\ law' = IF ok THEN "created" ELSE "err"
          /\ rxAlive' = ok
    /\ UNCHANGED <<watching, trig, cb, cons, events, lastEv, lastCb, signals,
                   dequeued, sendFailed, builds, tryRes, buildRes, callBuilds,
                   result, compileErrs>>
    /\ UNCHANGED <<kernelVars, restVars>>

\* watcher.watch(&watch_path, Recursive)?
LawWatch ==
    /\ law = "created"
    /\ \E ok \in BOOLEAN :
          /\ law' = IF ok THEN "watching" ELSE "err"
          /\ watching' = ok
          /\ rxAlive' = ok
    /\ UNCHANGED <<trig, cb, cons, events, lastEv, lastCb, signals, dequeued,
                   sendFailed, builds, tryRes, buildRes, callBuilds, result,
                   compileErrs>>
    /\ UNCHANGED <<kernelVars, restVars>>

\* A load_and_watch that returns the Watcher without the initial trigger.
MutReturnWithoutTrigger ==
    /\ law = "watching"
    /\ law' = "ok"
    /\ UNCHANGED <<watching, trig, cb, cons, rxAlive, events, lastEv, lastCb,
                   signals, dequeued, sendFailed, builds, tryRes, buildRes,
                   callBuilds, result, compileErrs>>
    /\ UNCHANGED <<kernelVars, restVars>>

\* thread::spawn(move || tx2.send(())...) and Ok(Watcher { .. })
LawSpawnAndReturn ==
    /\ law = "watching"
    /\ law' = "ok"
    /\ trig' = "spawned"
    /\ UNCHANGED <<watching, cb, cons, rxAlive, events, lastEv, lastCb,
                   signals, dequeued, sendFailed, builds, tryRes, buildRes,
                   callBuilds, result, compileErrs>>
    /\ UNCHANGED <<kernelVars, restVars>>

(***************************************************************************)
(* The notifying side                                                      *)
(***************************************************************************)
\* The spawned thread calls tx2.send(()).
TriggerSend ==
    /\ trig = "spawned"
    /\ trig' = SyncSend(rxAlive)
    /\ signals' = signals + 1
    /\ sendFailed' = sendFailed + (IF SyncSend(rxAlive) = "panicked" THEN 1 ELSE 0)
    /\ UNCHANGED <<law, watching, cb, cons, rxAlive, events, lastEv, lastCb,
                   dequeued, builds, tryRes, buildRes, callBuilds, result,
                   compileErrs>>
    /\ UNCHANGED <<kernelVars, restVars>>

\* The notify thread delivers one event to the callback.  The thread runs one
\* callback at a time: while it is blocked in send no further event is
\* delivered.
FsEvent ==
    /\ watching
    /\ cb = "idle"
    /\ events < MaxEvents
    /\ \E event \in WatchEvents :
          LET did == WatchCallback(event) IN
          /\ lastEv' = event
          /\ events' = events + 1
          /\ lastCb' = did
          /\ cb' = CASE did = "panic" -> "panicked"
                     [] did = "send" -> SyncSend(rxAlive)
                     [] OTHER -> "idle"
          /\ signals' = signals + (IF did = "send" THEN 1 ELSE 0)
          /\ sendFailed' = sendFailed +
                (IF did = "send" /\ SyncSend(rxAlive) = "panicked" THEN 1 ELSE 0)
    /\ UNCHANGED <<law, watching, trig, cons, rxAlive, dequeued, builds,
                   tryRes, buildRes, callBuilds, result, compileErrs>>
    /\ UNCHANGED <<kernelVars, restVars>>

(***************************************************************************)
(* Watcher::receive                                                        *)
(***************************************************************************)
\* receive is called: self.channel.try_recv() and the arms that need no build.
ReceiveTryRecv ==
    /\ law = "ok"
    /\ cons = "idle"
    /\ rxAlive
    /\ LET tr == TryRecv IN
       /\ tryRes' = tr
       /\ buildRes' = "none"
       /\ callBuilds' = 0
       /\ cons' = AfterTryRecv(tr)
       /\ result' = CASE AfterTryRecv(tr) = "idle" -> "None"
                      [] AfterTryRecv(tr) = "panicked" -> "panic"
                      [] OTHER -> "none"
       /\ IF tr = "Ok"
             THEN \E s \in Pending :
                     /\ dequeued' = dequeued + 1
                     /\ trig' = IF s = "trig" THEN "done" ELSE trig
                     /\ cb' = IF s = "cb" THEN "idle" ELSE cb
             ELSE UNCHANGED <<dequeued, trig, cb>>
    /\ UNCHANGED <<law, watching, rxAlive, events, lastEv, lastCb, signals,
                   sendFailed, builds, compileErrs>>
    /\ UNCHANGED <<kernelVars, restVars>>

\* The Ok(()) arm: self.model.load_once(&self.parameters) and its match.
ReceiveLoadOnce ==
    /\ cons = "building"
    /\ \E cargo \in CargoOutcomes, lib \in LibOutcomes :
          LET r == load_once(cargo, lib) IN
          /\ buildRes' = r
          /\ builds' = builds + 1
          /\ callBuilds' = callBuilds + 1
          /\ result' = ReceiveMatch(r)
          /\ cons' = IF ReceiveMatch(r) = "panic" THEN "panicked" ELSE "idle"
          /\ compileErrs' = IF r = "Compile" /\ compileErrs < 1
                               THEN compileErrs + 1 ELSE compileErrs
    /\ UNCHANGED <<law, watching, trig, cb, rxAlive, events, lastEv, lastCb,
                   signals, dequeued, sendFailed, tryRes>>
    /\ UNCHANGED <<kernelVars, restVars>>

\* The panic in receive unwinds through the owner of the Watcher: the
\* Receiver is dropped, blocked senders get Err and panic, and the
\* notify watcher stops.
DropWatcher ==
    /\ cons = "panicked"
    /\ rxAlive
    /\ rxAlive' = FALSE
    /\ watching' = FALSE
    /\ trig' = IF trig = "sending" THEN "panicked" ELSE trig
    /\ cb' = IF cb = "sending" THEN "panicked" ELSE cb
    /\ sendFailed' = sendFailed + Cardinality(Pending)
    /\ UNCHANGED <<law, cons, events, lastEv, lastCb, signals, dequeued,
                   builds, tryRes, buildRes, callBuilds, result, compileErrs>>
    /\ UNCHANGED <<kernelVars, restVars>>

Next ==
    \/ LawCreateWatcher
    \/ LawWatch
    \/ LawSpawnAndReturn
    \/ TriggerSend
    \/ FsEvent
    \/ ReceiveTryRecv
    \/ ReceiveLoadOnce
    \/ DropWatcher

Spec == Init /\ [][Next]_vars

\* The scheduler runs the trigger thread, and the consumer keeps calling
\* receive and every build it starts ends.
LiveSpec ==
    /\ Spec
    /\ WF_vars(TriggerSend)
    /\ WF_vars(ReceiveTryRecv)
    /\ WF_vars(ReceiveLoadOnce)

(***************************************************************************)
(* Claims about the model host                                             *)
(***************************************************************************)

\* C1 (as stated): the handoff holds at most one pending notification at any
\* time; a second signal raised while one is pending is discarded.
C1_AtMostOnePending == Cardinality(Pending) <= 1

\* C1 (amended): the handoff has no buffer and discards nothing.  Each of the
\* two notifying threads blocks in send until a receive call takes its
\* notification, so up to two notifications are pending at once, and every
\* signal raised so far is still pending, was obtained by a receive call, or
\* its send panicked because the Receiver was dropped.
C1_NoSignalDiscarded ==
    /\ Cardinality(Pending) <= 2
    /\ signals = dequeued + Cardinality(Pending) + sendFailed
    /\ (rxAlive => sendFailed = 0)

\* Two signals raised before any receive call: both are pending.
C1_TwoSignalsPending ==
    /\ signals = 2
    /\ Cardinality(Pending) = 2
    /\ tryRes = "none"

C3_CompileRecoverableOthersFatal ==
    cons # "building" =>
        /\ (tryRes = "Ok" /\ buildRes = "Compile") =>
              (result = "None" /\ cons = "idle" /\ rxAlive)
        /\ (tryRes = "Ok" /\ buildRes = "Ok") =>
              (result = "Some" /\ cons = "idle")
        /\ (tryRes = "Ok" /\ buildRes \notin {"Ok", "Compile"}) =>
              (result = "panic" /\ cons = "panicked")
        /\ (tryRes = "Disconnected") =>
              (result = "panic" /\ cons = "panicked" /\ callBuilds = 0)
        /\ (cons = "panicked") =>
              (tryRes = "Disconnected" \/ buildRes \in {"Io", "LibLoading"})

\* A receive call returned Some after an earlier one failed to compile.
C3_SomeAfterCompileError ==
    /\ compileErrs = 1
    /\ result = "Some"
    /\ cons = "idle"

\* What the callback is claimed never to signal for.
C4Blocked(event) ==
    \/ event.kind \notin AcceptedKinds
    \/ /\ Len(event.paths) > 0
       /\ Extension(event.paths[1]) \in {"swp", "tmp", "swx"}

\* C4 (as stated): no signal for an event of another kind or whose first
\* path has the extension swp, tmp or swx; exactly one signal for every
\* other event.
C4_FilterAsStated ==
    [][(events' = events + 1 /\ lastEv'.ok) =>
          signals' - signals = (IF C4Blocked(lastEv') THEN 0 ELSE 1)]_vars

\* C4 (amended): no signal for an event of another kind or whose first path
\* has the extension swp, tmp or swx; exactly one call of send for every
\* other event that has a first path; an event of an accepted kind without
\* paths, and an Err in place of the event, panic the callback unsignalled.
C4_FilterWithFirstPath ==
    [][(events' = events + 1) =>
          LET e == lastEv'
              sent == signals' - signals
          IN  /\ (e.ok /\ C4Blocked(e)) => (sent = 0 /\ cb' = "idle")
              /\ (e.ok /\ ~C4Blocked(e) /\ Len(e.paths) > 0) =>
                    (sent = 1 /\ cb' \in {"sending", "panicked"})
              /\ (e.ok /\ ~C4Blocked(e) /\ Len(e.paths) = 0) =>
                    (sent = 0 /\ cb' = "panicked")
              /\ (~e.ok) => (sent = 0 /\ cb' = "panicked")]_vars

\* The callback signalled for a path without an extension.
C4_SignalledForPathWithoutExtension ==
    /\ lastEv.ok
    /\ lastEv.kind \in AcceptedKinds
    /\ lastEv.paths = << <<"main">> >>
    /\ lastCb = "send"
    /\ cb = "sending"

\* C5: a receive call runs load_once at most once, and exactly when it
\* dequeued a notification; the builds run never outnumber the signals.
C5_BuildOncePerSignal ==
    /\ builds <= signals
    /\ callBuilds <= 1
    /\ builds + (IF cons = "building" THEN 1 ELSE 0) = dequeued
    /\ (cons # "building") =>
          callBuilds = (IF tryRes = "Ok" THEN 1 ELSE 0)
    /\ (cons = "building") => (tryRes = "Ok" /\ callBuilds = 0)

\* Three signals (the trigger and two file events), each built once.
C5_EverySignalBuilt ==
    /\ signals = 3
    /\ builds = 3
    /\ callBuilds = 1

\* C6: the initial-load notification is raised only once the watcher is
\* registered, and after load_and_watch returned Ok a receive call
\* eventually runs the first build; without any file event that build is
\* the one of the initial-load notification.
C6_InitialLoadEventuallyBuilt ==
    /\ [](trig # "none" => law = "ok")
    /\ []((trig = "sending" /\ rxAlive) => watching)
    /\ ((law = "ok") ~> (builds >= 1))
    /\ []((builds >= 1 /\ events = 0) => trig = "done")

\* The first build ran although no file event ever occurred.
C6_FirstBuildWithoutFileEvent ==
    /\ events = 0
    /\ builds = 1
    /\ trig = "done"
    /\ dequeued = 1

(***************************************************************************)
(* The kernel as a state machine: an object is constructed, then           *)
(* transformed, translated and rotated.                                    *)
(***************************************************************************)
KernelInit ==
    /\ obj \in SampleObjects
    /\ orig = obj
    /\ acc = Identity
    /\ steps = 0
    /\ lastOp = [op |-> "none", arg |-> <<>>, T |-> Identity, pre |-> obj]

TransformInit ==
    HostInit /\ KernelInit /\ SweepIdle /\ TriangleIdle /\ EdgesIdle

\* object.transform(&T)
ApplyTransform ==
    /\ steps < MaxSteps
    /\ \E T \in SampleTransforms :
          /\ obj' = transform(obj, T)
          /\ acc' = Compose(T, acc)
          /\ lastOp' = [op |-> "transform", arg |-> T, T |-> T, pre |-> obj]
    /\ steps' = steps + 1
    /\ UNCHANGED <<orig, hostVars, restVars>>

\* object.translate(offset)
ApplyTranslate ==
    /\ steps < MaxSteps
    /\ \E offset \in SampleOffsets :
          /\ obj' = translate(obj, offset)
          /\ acc' = Compose(translation(offset), acc)
          /\ lastOp' = [op |-> "translate", arg |-> offset,
                        T |-> translation(offset), pre |-> obj]
    /\ steps' = steps + 1
    /\ UNCHANGED <<orig, hostVars, restVars>>

\* object.rotate(axis_angle)
ApplyRotate ==
    /\ steps < MaxSteps
    /\ \E axis_angle \in SampleAxisAngles :
          /\ obj' = rotate(obj, axis_angle)
          /\ acc' = Compose(rotation(axis_angle), acc)
          /\ lastOp' = [op |-> "rotate", arg |-> axis_angle,
                        T |-> rotation(axis_angle), pre |-> obj]
    /\ steps' = steps + 1
    /\ UNCHANGED <<orig, hostVars, restVars>>

TransformNext ==
    \/ ApplyTransform
    \/ ApplyTranslate
    \/ ApplyRotate

TransformSpec == TransformInit /\ [][TransformNext]_vars

(***************************************************************************)
(* Claims about the transform algorithm                                    *)
(***************************************************************************)
\* The vertices of an edge lie where its curve puts their curve coordinate.
EdgePairing(edge) ==
    \A i \in DOMAIN edge.vertices :
        edge.vertices[i].global.position =
            point_from_curve_coords(edge.curve.global, edge.vertices[i].position)

CyclePairing(cycle) == \A i \in DOMAIN cycle.edges : EdgePairing(cycle.edges[i])

\* On a face, also: the 3D curve of an edge is its local curve on the surface.
FacePairing(face) ==
    face.kind = "Face" =>
        \A cycles \in {face.exteriors, face.interiors} :
            \A c \in DOMAIN cycles :
                /\ CyclePairing(cycles[c])
                /\ \A e \in DOMAIN cycles[c].edges :
                      cycles[c].edges[e].curve.global =
                          CurveOnSurface(face.surface, cycles[c].edges[e].curve.local)

Pairing(object) ==
    CASE object.kind = "Edge" -> EdgePairing(object)
      [] object.kind = "Cycle" -> CyclePairing(object)
      [] object.kind = "Face" -> FacePairing(object)
      [] object.kind \in {"Sketch", "Solid"} -> \A f \in object.faces : FacePairing(f)
      [] OTHER -> TRUE

\* The local halves of an object, and its global halves.
EdgeLocals(edge) ==
    <<edge.curve.local, [i \in DOMAIN edge.vertices |-> edge.vertices[i].position]>>

EdgeGlobals(edge) ==
    <<edge.curve.global, [i \in DOMAIN edge.vertices |-> edge.vertices[i].global]>>

CycleLocals(cycle) == [i \in DOMAIN cycle.edges |-> EdgeLocals(cycle.edges[i])]

CycleGlobals(cycle) == [i \in DOMAIN cycle.edges |-> EdgeGlobals(cycle.edges[i])]

FaceLocals(face) ==
    IF face.kind = "Face"
       THEN <<[i \in DOMAIN face.exteriors |-> CycleLocals(face.exteriors[i])],
              [i \in DOMAIN face.interiors |-> CycleLocals(face.interiors[i])]>>
       ELSE <<>>

FaceGlobals(face) ==
    IF face.kind = "Face"
       THEN <<[i \in DOMAIN face.exteriors |-> CycleGlobals(face.exteriors[i])],
              [i \in DOMAIN face.interiors |-> CycleGlobals(face.interiors[i])]>>
       ELSE <<>>

HasLocals(object) == object.kind \in {"Vertex", "Edge", "Cycle", "Face", "Sketch", "Solid"}

Locals(object) ==
    CASE object.kind = "Vertex" -> object.position
      [] object.kind = "Edge" -> EdgeLocals(object)
      [] object.kind = "Cycle" -> CycleLocals(object)
      [] object.kind = "Face" -> FaceLocals(object)
      [] object.kind \in {"Sketch", "Solid"} -> {FaceLocals(f) : f \in object.faces}
      [] OTHER -> <<>>

Globals(object) ==
    CASE object.kind = "Vertex" -> object.global
      [] object.kind = "Edge" -> EdgeGlobals(object)
      [] object.kind = "Cycle" -> CycleGlobals(object)
      [] object.kind = "Face" -> FaceGlobals(object)
      [] object.kind \in {"Sketch", "Solid"} -> {FaceGlobals(f) : f \in object.faces}
      [] OTHER -> <<>>

\* C7 (as stated): after a transform the pairing of local and global form
\* holds, and the local coordinates are not carried over verbatim while only
\* the global half is updated.
C7_LocalsNotCarriedOver ==
    (steps > 0 /\ HasLocals(obj)) =>
        /\ Pairing(obj)
        /\ ~ /\ Locals(obj) = Locals(lastOp.pre)
             /\ Globals(obj) # Globals(lastOp.pre)

\* C7 (amended): after a transform the pairing of local and global form
\* holds: each vertex of an edge is the point of the transformed curve at its
\* curve coordinate, each edge's 3D curve is its local curve on the
\* transformed surface.  The local coordinates are carried over verbatim and
\* only the global half is transformed.
C7_PairingKeptLocalsCarriedOver ==
    /\ Pairing(obj)
    /\ Locals(obj) = Locals(orig)

\* A face with its edges and vertices, moved by two transforms that turn and
\* shift it.
C7_FaceMovedTwice ==
    /\ obj.kind = "Face"
    /\ steps = 2
    /\ acc.m # IdentityMatrix
    /\ acc.t # <<0, 0, 0>>
    /\ Globals(obj) # Globals(orig)
    /\ Locals(obj) = Locals(orig)

\* C8: translate(offset) gives what transform(Transform::translation(offset))
\* gives, rotate(axis_angle) what transform(Transform::rotation(axis_angle))
\* gives, for every kind of object.
C8_ConvenienceIsGeneralTransform ==
    /\ lastOp.op = "translate" =>
          obj = transform(lastOp.pre, translation(lastOp.arg))
    /\ lastOp.op = "rotate" =>
          obj = transform(lastOp.pre, rotation(lastOp.arg))

\* A solid that was rotated, then translated.
C8_SolidRotatedThenTranslated ==
    /\ obj.kind = "Solid"
    /\ steps = 2
    /\ lastOp.op = "translate"
    /\ acc.m # IdentityMatrix
    /\ obj # lastOp.pre

\* C9: a transformed B-rep face has the exterior cycles of the original as its
\* exterior cycles and the interior ones as its interior cycles, in the same
\* number and order, and the same color; a transformed triangle face has the
\* same number of triangles in the same order with the same colors.
C9_FaceStructureKept ==
    steps > 0 =>
        LET pre == lastOp.pre
            T == lastOp.T
        IN  /\ obj.kind = "Face" =>
                  /\ Len(obj.exteriors) = Len(orig.exteriors)
                  /\ Len(obj.interiors) = Len(orig.interiors)
                  /\ \A i \in DOMAIN obj.exteriors :
                        obj.exteriors[i] = transform_cycle(pre.exteriors[i], T)
                  /\ \A i \in DOMAIN obj.interiors :
                        obj.interiors[i] = transform_cycle(pre.interiors[i], T)
                  /\ obj.color = orig.color
            /\ obj.kind = "Triangles" =>
                  /\ Len(obj.triangles) = Len(orig.triangles)
                  /\ \A i \in DOMAIN obj.triangles :
                        /\ obj.triangles[i].color = orig.triangles[i].color
                        /\ obj.triangles[i].triangle =
                              transform_triangle(T, pre.triangles[i].triangle)

\* A B-rep face with one exterior and two interior cycles, transformed twice.
C9_FaceWithHolesTransformed ==
    /\ obj.kind = "Face"
    /\ steps = 2
    /\ Len(obj.exteriors) = 1
    /\ Len(obj.interiors) = 2
    /\ obj.surface # orig.surface
    /\ obj.color = "red"

\* C10: applying T1 and then T2 gives what applying the composition of T2
\* with T1 gives, for every kind of object.
C10_TransformsCompose == obj = transform(orig, acc)

\* A solid after two transforms that do not commute.
C10_SolidAfterTwoTransforms ==
    /\ obj.kind = "Solid"
    /\ steps = 2
    /\ lastOp.op = "transform"
    /\ lastOp.pre # orig
    /\ acc.m # IdentityMatrix
    /\ acc.t # <<0, 0, 0>>


(***************************************************************************)
(* Part 3: fj::Sweep as a Shape (crates/fj-operations/src/sweep.rs).       *)
(***************************************************************************)
\* Largest absolute value of the small path components that are tried.
MaxPath == 1

\* The checks of the validation, in the order they are made.
Checks == <<"closure", "overlap", "join", "self-intersection">>

\* ValidationConfig: a tolerance and the checks to run.
ValidationConfigs ==
    [tolerance : {1, 2},
     checks : { {}, {"closure"}, {"closure", "overlap", "join", "self-intersection"} }]

\* Tolerance values handed to compute_brep.
Tolerances == {3, 4}

\* validate(shape, config): the first enabled check the shape fails, or the
\* shape wrapped as Validated.
validate(shape, config) ==
    LET failing == {i \in DOMAIN Checks : Checks[i] \in (config.checks \cap shape.defects)}
    IN  IF failing = {}
           THEN [ok |-> TRUE, value |-> shape]
           ELSE [ok |-> FALSE,
                 error |-> [check |-> Checks[CHOOSE i \in failing : \A j \in failing : i <= j],
                            object |-> shape.id]]

\* compute_brep of the 2D shape a sweep is made of: its sketch, approximated
\* with the tolerance and validated with the config.
Shape2dComputeBrep(shape, config, tolerance) ==
    validate([kind |-> "Sketch", id |-> shape.id, defects |-> shape.defects,
              tolerance |-> tolerance], config)

\* fj_kernel::algorithms::sweep: the solid made of the sketch moved along
\* the path; defects is what the validation will find wrong with it.
sweep(sketch, path, tolerance, color, defects) ==
    [kind |-> "Solid", id |-> "swept", source |-> sketch, path |-> path,
     tolerance |-> tolerance, color |-> color, defects |-> defects]

NoSolid == [kind |-> "none"]

\* A compute_brep that drops the `?`: it sweeps and validates whatever the
\* 2D shape returned.
MutComputeBrepSweepsAnyway(self, config, tolerance, defects) ==
    LET sketch == Shape2dComputeBrep(self.shape, config, tolerance)
        inner == IF sketch.ok THEN sketch.value
                 ELSE [kind |-> "Sketch", id |-> self.shape.id,
                       defects |-> self.shape.defects, tolerance |-> tolerance]
        solid == sweep(inner, self.path, tolerance, self.shape.color, defects)
    IN  [log |-> << [fn |-> "shape.compute_brep", config |-> config, tolerance |-> tolerance],
                    [fn |-> "sweep", sketch |-> inner, path |-> self.path,
                     tolerance |-> tolerance, color |-> self.shape.color],
                    [fn |-> "validate", shape |-> solid, config |-> config] >>,
         sketch |-> sketch,
         solid |-> solid,
         result |-> validate(solid, config)]

\* <fj::Sweep as Shape>::compute_brep: the calls it makes and what it returns.
compute_brep(self, config, tolerance, defects) ==
    LET sketch == Shape2dComputeBrep(self.shape, config, tolerance)
        first == [fn |-> "shape.compute_brep", config |-> config, tolerance |-> tolerance]
    IN  IF ~sketch.ok
           THEN [log |-> <<first>>, sketch |-> sketch, solid |-> NoSolid,
                 result |-> sketch]                                      \* the `?`
           ELSE LET path == self.path
                    color == self.shape.color
                    solid == sweep(sketch.value, path, tolerance, color, defects)
                IN  [log |-> << first,
                                [fn |-> "sweep", sketch |-> sketch.value, path |-> path,
                                 tolerance |-> tolerance, color |-> color],
                                [fn |-> "validate", shape |-> solid, config |-> config] >>,
                     sketch |-> sketch,
                     solid |-> solid,
                     result |-> validate(solid, config)]

(***************************************************************************)
(* fj_math::Aabb over integers: min and max corner.                        *)
(***************************************************************************)
MinOf(S) == CHOOSE x \in S : \A y \in S : x <= y

MaxOf(S) == CHOOSE x \in S : \A y \in S : x >= y

\* Aabb::vertices: the eight corners
AabbVertices(box) ==
    { <<x, y, z>> : x \in {box.min[1], box.max[1]},
                    y \in {box.min[2], box.max[2]},
                    z \in {box.min[3], box.max[3]} }

\* Aabb::from_points
AabbFromPoints(points) ==
    [min |-> [i \in 1..3 |-> MinOf({p[i] : p \in points})],
     max |-> [i \in 1..3 |-> MaxOf({p[i] : p \in points})]]

\* Aabb::merged
AabbMerged(box, other) ==
    [min |-> [i \in 1..3 |-> MinOf({box.min[i], other.min[i]})],
     max |-> [i \in 1..3 |-> MaxOf({box.max[i], other.max[i]})]]

\* A bounding volume that only stretches the far corner along the path.
MutBoundingVolumeStretchesMax(self) ==
    [min |-> self.shape.box.min, max |-> Add(self.shape.box.max, self.path)]

\* <fj::Sweep as Shape>::bounding_volume
bounding_volume(self) ==
    AabbMerged(self.shape.box,
               AabbFromPoints({Add(v, self.path) : v \in AabbVertices(self.shape.box)}))

(***************************************************************************)
(* The sweeps that are computed.                                           *)
(***************************************************************************)
UnitSquare ==
    [id |-> "unit square", defects |-> {}, color |-> "red",
     box |-> [min |-> <<0, 0, 0>>, max |-> <<1, 1, 0>>]]

\* 2D shapes: a sound one, one whose outline is open, one with overlapping
\* cycles; box is the shape's own bounding volume.
Shapes2d ==
    { UnitSquare,
      [id |-> "open outline", defects |-> {"closure"}, color |-> "green",
       box |-> [min |-> <<-1, -2, 0>>, max |-> <<2, 1, 0>>]],
      [id |-> "overlapping cycles", defects |-> {"overlap"}, color |-> "blue",
       box |-> [min |-> <<3, 0, 0>>, max |-> <<4, 4, 0>>]] }

PathComponents == (-MaxPath .. MaxPath) \cup {5}

Paths == { <<x, y, z>> : x \in PathComponents, y \in PathComponents, z \in PathComponents }

\* What the validation can find wrong with a swept solid.
SolidDefects == { {}, {"join"}, {"self-intersection"} }

SweepStart ==
    /\ swShape \in [shape : Shapes2d, path : Paths]
    /\ swArgs = "none"
    /\ swPc = "idle"
    /\ swLog = <<>>
    /\ swSketch = "none"
    /\ swSolid = "none"
    /\ swResult = "none"
    /\ swBv = [done |-> FALSE]

SweepInit == HostInit /\ KernelIdle /\ SweepStart /\ TriangleIdle /\ EdgesIdle

\* sweep.compute_brep(config, tolerance, debug_info)
ComputeBrep ==
    /\ \E config \in ValidationConfigs, tolerance \in Tolerances, defects \in SolidDefects :
          LET did == compute_brep(swShape, config, tolerance, defects) IN
          /\ swArgs' = [config |-> config, tolerance |-> tolerance]
          /\ swLog' = did.log
          /\ swSketch' = did.sketch
          /\ swSolid' = did.solid
          /\ swResult' = did.result
    /\ swPc' = "returned"
    /\ UNCHANGED <<swShape, swBv, hostVars, kernelVars, triangleVars, edgesVars>>

\* sweep.bounding_volume()
BoundingVolume ==
    /\ ~swBv.done
    /\ swBv' = [done |-> TRUE, box |-> bounding_volume(swShape)]
    /\ UNCHANGED <<swShape, swArgs, swPc, swLog, swSketch, swSolid, swResult,
                   hostVars, kernelVars, triangleVars, edgesVars>>

SweepNext ==
    \/ ComputeBrep
    \/ BoundingVolume

SweepSpec == SweepInit /\ [][SweepNext]_vars

(***************************************************************************)
(* Claims about the sweep                                                  *)
(***************************************************************************)
\* C11: compute_brep returns Ok only with a solid that validate accepted,
\* swept from a sketch the 2D shape's compute_brep returned validated; an
\* error of the 2D shape is returned unchanged, with neither sweep nor
\* validate called; the config and tolerance passed in are the ones passed on
\* to the 2D shape, to sweep and to validate.
C11_SolidOnlyThroughValidation ==
    swPc = "returned" =>
        /\ swLog[1] = [fn |-> "shape.compute_brep", config |-> swArgs.config,
                       tolerance |-> swArgs.tolerance]
        /\ swSketch = Shape2dComputeBrep(swShape.shape, swArgs.config, swArgs.tolerance)
        /\ ~swSketch.ok =>
              /\ swResult = swSketch
              /\ Len(swLog) = 1
              /\ swSolid = NoSolid
        /\ swSketch.ok =>
              /\ Len(swLog) = 3
              /\ swLog[2] = [fn |-> "sweep", sketch |-> swSketch.value,
                             path |-> swShape.path, tolerance |-> swArgs.tolerance,
                             color |-> swShape.shape.color]
              /\ swLog[3] = [fn |-> "validate", shape |-> swSolid, config |-> swArgs.config]
              /\ swSolid.source = swSketch.value
              /\ swSolid.tolerance = swArgs.tolerance
              /\ swResult = validate(swSolid, swArgs.config)
        /\ swResult.ok =>
              /\ swSketch.ok
              /\ swResult.value = swSolid
              /\ swSolid.defects \cap swArgs.config.checks = {}

\* A sound shape swept into a sound solid, validated with every check on.
C11_SweptSolidValidated ==
    /\ swPc = "returned"
    /\ swResult.ok
    /\ Len(swLog) = 3
    /\ Cardinality(swArgs.config.checks) = 4
    /\ swResult.value.kind = "Solid"

\* The corners of the source box and of the source box moved by the path.
C12Corners ==
    AabbVertices(swShape.shape.box) \cup
        {Add(v, swShape.path) : v \in AabbVertices(swShape.shape.box)}

\* C12: the bounding volume of a sweep is the smallest axis-aligned box that
\* contains the source shape's box and that box moved by the path, whatever
\* the signs of the path's components; the unit square swept by (0, 0, 5) has
\* the box [0, 1] x [0, 1] x [0, 5].
C12_BoundingVolumeIsSmallestBox ==
    swBv.done =>
        /\ \A p \in C12Corners : \A i \in 1..3 :
              swBv.box.min[i] <= p[i] /\ p[i] <= swBv.box.max[i]
        /\ \A i \in 1..3 :
              /\ \E p \in C12Corners : p[i] = swBv.box.min[i]
              /\ \E p \in C12Corners : p[i] = swBv.box.max[i]
        /\ (swShape.shape = UnitSquare /\ swShape.path = <<0, 0, 5>>) =>
              swBv.box = [min |-> <<0, 0, 0>>, max |-> <<1, 1, 5>>]

\* The bounding volume of a sweep along a path that goes down one axis and up
\* another.
C12_SweptAlongNegativePath ==
    /\ swBv.done
    /\ swShape.shape = UnitSquare
    /\ swShape.path = <<-1, 0, 5>>
    /\ swBv.box = [min |-> <<-1, 0, 0>>, max |-> <<1, 1, 5>>]


(***************************************************************************)
(* Part 4: Triangle and its array form (fj/src/geometry/triangle.rs).      *)
(***************************************************************************)
\* f32 values: a few numbers and NaN.
NaN == [nan |-> TRUE, v |-> 0]

F32 == {[nan |-> FALSE, v |-> 0], [nan |-> FALSE, v |-> 1], NaN}

\* f32's PartialEq: NaN equals nothing, itself included.
F32Eq(x, y) == ~x.nan /\ ~y.nan /\ x.v = y.v

\* [f32; 3]
Arrays3 == { <<x, y, z>> : x \in F32, y \in F32, z \in F32 }

\* Point3<f32> from [f32; 3]
Point3From(a) == [x |-> a[1], y |-> a[2], z |-> a[3]]

\* point[i], i counted from 0
Point3Index(p, i) == CASE i = 0 -> p.x [] i = 1 -> p.y [] i = 2 -> p.z

\* Point3's PartialEq
Point3Eq(p, q) == F32Eq(p.x, q.x) /\ F32Eq(p.y, q.y) /\ F32Eq(p.z, q.z)

\* #[derive(PartialEq)] of Triangle
TriangleEq(s, t) == Point3Eq(s.a, t.a) /\ Point3Eq(s.b, t.b) /\ Point3Eq(s.c, t.c)

\* Triangle::new
Triangle_new(a, b, c) == [a |-> Point3From(a), b |-> Point3From(b), c |-> Point3From(c)]

\* impl From<Array> for Triangle
Triangle_from(array) == Triangle_new(array[1], array[2], array[3])

\* A conversion that reads the second vertex's coordinates in the wrong order.
MutArrayFromRefSwapsCoordinates(triangle) ==
    << <<Point3Index(triangle.a, 0), Point3Index(triangle.a, 1), Point3Index(triangle.a, 2)>>,
       <<Point3Index(triangle.b, 0), Point3Index(triangle.b, 2), Point3Index(triangle.b, 1)>>,
       <<Point3Index(triangle.c, 0), Point3Index(triangle.c, 1), Point3Index(triangle.c, 2)>> >>

\* impl From<&Triangle> for Array
Array_from_ref(triangle) ==
    << <<Point3Index(triangle.a, 0), Point3Index(triangle.a, 1), Point3Index(triangle.a, 2)>>,
       <<Point3Index(triangle.b, 0), Point3Index(triangle.b, 1), Point3Index(triangle.b, 2)>>,
       <<Point3Index(triangle.c, 0), Point3Index(triangle.c, 1), Point3Index(triangle.c, 2)>> >>

\* impl From<Triangle> for Array
Array_from(triangle) == Array_from_ref(triangle)

Triangles == { Triangle_new(a, b, c) : a \in Arrays3, b \in Arrays3, c \in Arrays3 }

TriangleStart ==
    /\ tri \in Triangles
    /\ arr = "none"
    /\ back = "none"
    /\ triPc = "triangle"

TriangleInit == HostInit /\ KernelIdle /\ SweepIdle /\ TriangleStart /\ EdgesIdle

\* Array::from(triangle)
ArrayFromTriangle ==
    /\ triPc = "triangle"
    /\ arr' = Array_from(tri)
    /\ triPc' = "array by value"
    /\ UNCHANGED <<tri, back, hostVars, kernelVars, sweepVars, edgesVars>>

\* Array::from(&triangle)
ArrayFromTriangleRef ==
    /\ triPc = "triangle"
    /\ arr' = Array_from_ref(tri)
    /\ triPc' = "array by reference"
    /\ UNCHANGED <<tri, back, hostVars, kernelVars, sweepVars, edgesVars>>

\* Triangle::from(array)
TriangleFromArray ==
    /\ triPc \in {"array by value", "array by reference"}
    /\ back' = Triangle_from(arr)
    /\ triPc' = IF triPc = "array by value" THEN "back by value" ELSE "back by reference"
    /\ UNCHANGED <<tri, arr, hostVars, kernelVars, sweepVars, edgesVars>>

TriangleNext ==
    \/ ArrayFromTriangle
    \/ ArrayFromTriangleRef
    \/ TriangleFromArray

TriangleSpec == TriangleInit /\ [][TriangleNext]_vars

(***************************************************************************)
(* Claims about the triangle conversions                                   *)
(***************************************************************************)
C13Back == triPc \in {"back by value", "back by reference"}

C13Vertices(t) == <<t.a, t.b, t.c>>

C13HasNaN(t) ==
    \E i \in 1..3 : \E j \in 0..2 : Point3Index(C13Vertices(t)[i], j).nan

\* C13 (as amended): through the array form and back, by value and by
\* reference, a triangle keeps its vertices a, b, c in order and every
\* coordinate in its position, the array's row i being vertex i; the result
\* compares equal (==) to the triangle whenever no coordinate is NaN.
C13_RoundTripKeepsCoordinates ==
    /\ triPc \in {"array by value", "array by reference"} \cup {"back by value", "back by reference"} =>
          \A i \in 1..3 : \A j \in 0..2 : arr[i][j + 1] = Point3Index(C13Vertices(tri)[i], j)
    /\ C13Back =>
          /\ \A i \in 1..3 : \A j \in 0..2 :
                Point3Index(C13Vertices(back)[i], j) = Point3Index(C13Vertices(tri)[i], j)
          /\ ~C13HasNaN(tri) => TriangleEq(back, tri)

\* A triangle of three different vertices, none with a NaN, back from its
\* array form taken by reference.
C13_TriangleBackFromArray ==
    /\ triPc = "back by reference"
    /\ ~C13HasNaN(tri)
    /\ tri.a /= tri.b /\ tri.b /= tri.c /\ tri.a /= tri.c
    /\ tri.b.y /= tri.b.z
    /\ TriangleEq(back, tri)

\* C13 as stated: for every triangle the round trip compares equal.
C13_RoundTripIsEqual ==
    C13Back => TriangleEq(back, tri)


(***************************************************************************)
(* Part 5: the edges of a shape (src/kernel/topology/edges.rs).            *)
(***************************************************************************)
\* Largest number of operations applied to one Edges value.
MaxEdgeOps == 2

\* Option<[Vertex<1>; 2]>
NoVertices == [some |-> FALSE]

SomeVertices(vertices) == [some |-> TRUE, value |-> vertices]

\* Curve::transform: a line's origin and direction, a circle's center.
Curve_transform(curve, T) ==
    IF curve.kind = "Line"
       THEN [kind |-> "Line",
             origin |-> transform_point(T, curve.origin),
             direction |-> transform_vector(T, curve.direction)]
       ELSE [kind |-> "Circle",
             center |-> transform_point(T, curve.center),
             radius |-> curve.radius]

\* Vertex<1>::transform: the curve coordinate stays, the 3D point moves.
Vertex1_transform(vertex, T) ==
    [location |-> vertex.location, canonical |-> transform_point(T, vertex.canonical)]

\* Vertex<3>::to_1d: the vertex in the coordinates of the line it is on.
Vertex_to_1d(vertex, curve) ==
    [location |-> << CHOOSE t \in -4..4 :
                        Add(curve.origin, Scale(curve.direction, t)) = vertex.canonical >>,
     canonical |-> vertex.canonical]

\* Edge::new
Edge_new(curve, vertices) ==
    [curve |-> curve,
     vertices |-> IF vertices.some
                     THEN SomeVertices([n \in 1..2 |-> Vertex_to_1d(vertices.value[n], curve)])
                     ELSE NoVertices,
     reverse |-> FALSE]

\* Edge::circle
Edge_circle(radius) ==
    [curve |-> [kind |-> "Circle", center |-> <<0, 0, 0>>, radius |-> <<radius, 0>>],
     vertices |-> NoVertices,
     reverse |-> FALSE]

\* Edge::reverse
Edge_reverse(self) == [self EXCEPT !.reverse = ~self.reverse]

\* A transform that builds the moved edge afresh, not reversed.
MutEdgeTransformResetsReverse(self, T) ==
    [curve |-> Curve_transform(self.curve, T),
     vertices |-> IF self.vertices.some
                     THEN SomeVertices([n \in 1..2 |-> Vertex1_transform(self.vertices.value[n], T)])
                     ELSE NoVertices,
     reverse |-> FALSE]

\* Edge::transform
Edge_transform(self, T) ==
    [self EXCEPT
        !.curve = Curve_transform(self.curve, T),
        !.vertices = IF self.vertices.some
                        THEN SomeVertices([n \in 1..2 |-> Vertex1_transform(self.vertices.value[n], T)])
                        ELSE NoVertices]

\* Edges::single_cycle
Edges_single_cycle(edges) == [cycles |-> << [edges |-> edges] >>]

\* Edges::transform
Edges_transform(self, T) ==
    [cycles |-> [i \in DOMAIN self.cycles |->
        [edges |-> [j \in DOMAIN self.cycles[i].edges |->
            Edge_transform(self.cycles[i].edges[j], T)]]]]

\* Vertex<3> at a point
Vertex3(p) == [location |-> p, canonical |-> p]

\* The edge from one point to another, on the line through them.
LineEdge(from, to) ==
    Edge_new([kind |-> "Line", origin |-> from, direction |-> Add(to, Scale(from, -1))],
             SomeVertices(<<Vertex3(from), Vertex3(to)>>))

\* A triangle of three line edges.
TriangleCycle ==
    << LineEdge(<<0, 0, 0>>, <<2, 0, 0>>),
       LineEdge(<<2, 0, 0>>, <<0, 1, 0>>),
       LineEdge(<<0, 1, 0>>, <<0, 0, 0>>) >>

\* Edges values: a circle, a triangle, a triangle with a circular hole, two
\* edges back and forth.
SampleEdges ==
    { Edges_single_cycle(<<Edge_circle(1)>>),
      Edges_single_cycle(TriangleCycle),
      [cycles |-> << [edges |-> TriangleCycle], [edges |-> <<Edge_circle(3)>>] >>],
      Edges_single_cycle(<< LineEdge(<<1, 1, 1>>, <<1, 1, 3>>),
                            LineEdge(<<1, 1, 3>>, <<1, 1, 1>>) >>) }

EdgeTransforms == SampleTransforms \cup {translation(<<0, 0, -1>>)}

\* The Edges value as it is now.
CurrentEdges == edgesHist[Len(edgesHist)]

EdgesStart ==
    /\ edgesHist \in { <<edges>> : edges \in SampleEdges }
    /\ edgesLog = <<>>

EdgesInit == HostInit /\ KernelIdle /\ SweepIdle /\ TriangleIdle /\ EdgesStart

\* edges = edges.transform(&transform)
EdgesTransform ==
    /\ Len(edgesLog) < MaxEdgeOps
    /\ \E T \in EdgeTransforms :
          /\ edgesHist' = Append(edgesHist, Edges_transform(CurrentEdges, T))
          /\ edgesLog' = Append(edgesLog, [op |-> "Edges::transform", transform |-> T])
    /\ UNCHANGED <<hostVars, kernelVars, sweepVars, triangleVars>>

\* edges.cycles[i].edges[j] = edge.transform(&transform)
EdgeTransform ==
    /\ Len(edgesLog) < MaxEdgeOps
    /\ \E i \in DOMAIN CurrentEdges.cycles :
       \E j \in DOMAIN CurrentEdges.cycles[i].edges :
       \E T \in EdgeTransforms :
          /\ edgesHist' = Append(edgesHist,
                [CurrentEdges EXCEPT !.cycles[i].edges[j] = Edge_transform(@, T)])
          /\ edgesLog' = Append(edgesLog,
                [op |-> "Edge::transform", cycle |-> i, edge |-> j, transform |-> T])
    /\ UNCHANGED <<hostVars, kernelVars, sweepVars, triangleVars>>

\* edges.cycles[i].edges[j].reverse()
EdgeReverse ==
    /\ Len(edgesLog) < MaxEdgeOps
    /\ \E i \in DOMAIN CurrentEdges.cycles :
       \E j \in DOMAIN CurrentEdges.cycles[i].edges :
          /\ edgesHist' = Append(edgesHist,
                [CurrentEdges EXCEPT !.cycles[i].edges[j] = Edge_reverse(@)])
          /\ edgesLog' = Append(edgesLog,
                [op |-> "Edge::reverse", cycle |-> i, edge |-> j])
    /\ UNCHANGED <<hostVars, kernelVars, sweepVars, triangleVars>>

EdgesNext ==
    \/ EdgesTransform
    \/ EdgeTransform
    \/ EdgeReverse

EdgesSpec == EdgesInit /\ [][EdgesNext]_vars

(***************************************************************************)
(* Claims about the edges                                                  *)
(***************************************************************************)
\* Cycles and edges are as many as before, in both values.
C14SameShape(pre, post) ==
    /\ Len(post.cycles) = Len(pre.cycles)
    /\ \A i \in DOMAIN pre.cycles : Len(post.cycles[i].edges) = Len(pre.cycles[i].edges)

\* The edge is the earlier edge with only its geometry moved by T: same flag,
\* no vertices where there were none, the same two vertices in the same order
\* (same curve coordinates, moved 3D points) where there were two.
C14OnlyGeometryMoved(pre, post, T) ==
    /\ post.reverse = pre.reverse
    /\ post.curve = Curve_transform(pre.curve, T)
    /\ post.vertices.some = pre.vertices.some
    /\ pre.vertices.some =>
          /\ DOMAIN post.vertices.value = 1..2
          /\ \A n \in 1..2 :
                /\ post.vertices.value[n].location = pre.vertices.value[n].location
                /\ post.vertices.value[n].canonical =
                      transform_point(T, pre.vertices.value[n].canonical)

\* The edge is the earlier edge with only its flag flipped.
C14OnlyFlagFlipped(pre, post) ==
    /\ post.reverse = ~pre.reverse
    /\ post.curve = pre.curve
    /\ post.vertices = pre.vertices

C14StepOk(k) ==
    LET pre == edgesHist[k]
        post == edgesHist[k + 1]
        did == edgesLog[k]
    IN  /\ C14SameShape(pre, post)
        /\ \A i \in DOMAIN pre.cycles : \A j \in DOMAIN pre.cycles[i].edges :
              LET before == pre.cycles[i].edges[j]
                  after == post.cycles[i].edges[j]
              IN  CASE did.op = "Edges::transform" ->
                         C14OnlyGeometryMoved(before, after, did.transform)
                    [] did.op = "Edge::transform" ->
                         IF i = did.cycle /\ j = did.edge
                            THEN C14OnlyGeometryMoved(before, after, did.transform)
                            ELSE after = before
                    [] did.op = "Edge::reverse" ->
                         IF i = did.cycle /\ j = did.edge
                            THEN C14OnlyFlagFlipped(before, after)
                            ELSE after = before

\* C14: Edge::transform and Edges::transform change only geometry: every
\* edge keeps its reverse flag, an edge without bounding vertices still has
\* none, an edge with two still has the two in the same order, and cycles and
\* the edges within each cycle are as many and in the same order as before;
\* Edge::reverse changes only the reverse flag, and reversing the same edge
\* twice gives back the edge as it was.
C14_TransformMovesOnlyGeometry ==
    /\ Len(edgesHist) = Len(edgesLog) + (IF edgesHist = <<>> THEN 0 ELSE 1)
    /\ \A k \in DOMAIN edgesLog : C14StepOk(k)
    /\ \A k \in DOMAIN edgesLog :
          (/\ k + 1 \in DOMAIN edgesLog
           /\ edgesLog[k].op = "Edge::reverse"
           /\ edgesLog[k + 1] = edgesLog[k]) => edgesHist[k + 2] = edgesHist[k]

\* A triangle with a circular hole, the circle reversed and then all of it
\* transformed: a reversed edge without vertices and edges with two vertices
\* have been moved.
C14_ReversedCircleTransformed ==
    /\ Len(edgesLog) = 2
    /\ Len(edgesHist[1].cycles) = 2
    /\ edgesLog[1].op = "Edge::reverse"
    /\ edgesLog[2].op = "Edges::transform"
    /\ edgesHist[3].cycles[2].edges[1].reverse
    /\ ~edgesHist[3].cycles[2].edges[1].vertices.some
    /\ edgesHist[3].cycles[1].edges[2].vertices.some
    /\ edgesHist[3] /= edgesHist[2]

=============================================================================
